---- MODULE Spec2Model ----
(***************************************************************************)
(* Vinyl statement layer (src/box/vy_stmt.c): allocation, duplication,     *)
(* surrogate DELETE synthesis, key extraction and the xrow codec, modelled *)
(* as a state machine over a heap of statements, the format reference      *)
(* counters, the fiber region, an lsregion and the caller's xrow.          *)
(*                                                                         *)
(* MessagePack data is modelled byte for byte, restricted to the one-byte  *)
(* forms: positive fixint 0x00..0x7f, fixmap 0x80..0x8f, fixarray          *)
(* 0x90..0x9f, fixstr 0xa0..0xbf and nil 0xc0.                             *)
(***************************************************************************)
EXTENDS Integers, Sequences, FiniteSets, TLC

VARIABLES
    heap,        \* the malloc'ed statements, by address
    fmtRefs,     \* the reference counter of every tuple format
    regionUsed,  \* region_used(&fiber()->gc)
    lsregion,    \* the allocations of the lsregion, oldest first
    xrow,        \* the caller's struct xrow_header
    last,        \* the last call: its arguments, its result, the state before
    nops,        \* number of calls made
    acct         \* history: the cord that allocated each statement of the
                 \* heap, and per format the statements allocated on the
                 \* main cord and deleted on another less those allocated
                 \* on another cord and deleted on the main one

vars == <<heap, fmtRefs, regionUsed, lsregion, xrow, last, nops, acct>>

(***************************************************************************)
(* Bounds of the model.                                                    *)
(***************************************************************************)
\* number of malloc'ed statements that can be live at once
MaxRecs == 2
\* number of allocations the lsregion can hold
MaxArena == 1
\* largest reference count a statement is given
MaxRefs == 2
\* bytes the fiber region can hold
RegionCap == 96
\* largest LSN stamped on a statement
MaxLsn == 1
\* number of calls in a behaviour
MaxOps == 2
\* number of calls in a behaviour of the allocator alone
MaxAllocOps == 3
\* bytes of the fiber region in use before the first call
RegionBase == 16
\* number of calls in a behaviour that may make any call
MaxCalls == 1

(***************************************************************************)
(* 32-bit unsigned integers as two 16-bit limbs <<hi, lo>>.                *)
(***************************************************************************)
Limb == 2 ^ 16

U32(n) == <<n \div Limb, n % Limb>>

\* a + b modulo 2^32
U32Add(a, b) ==
    LET lo == a[2] + b[2]
        hi == a[1] + b[1] + (lo \div Limb)
    IN  <<hi % Limb, lo % Limb>>

\* the carry out of a + b: 1 when the sum does not fit in 32 bits
U32Carry(a, b) == (a[1] + b[1] + ((a[2] + b[2]) \div Limb)) \div Limb

U32Gt(a, b) == a[1] > b[1] \/ (a[1] = b[1] /\ a[2] > b[2])

\* the value of a 32-bit integer below 2^31
U32Val(a) == a[1] * Limb + a[2]

U32Small(a) == a[1] < 2 ^ 15

(***************************************************************************)
(* Bit operations on uint8_t.                                              *)
(***************************************************************************)
Bit(x, k) == (x \div (2 ^ k)) % 2

BitAnd(a, b) ==
    LET S[k \in 0..8] == IF k = 8 THEN 0
                         ELSE (2 ^ k) * Bit(a, k) * Bit(b, k) + S[k + 1]
    IN  S[0]

BitNot8(a) == 255 - a

(***************************************************************************)
(* MessagePack primitives on a byte sequence d; positions are 1-based.     *)
(***************************************************************************)
MP_NIL == 192
\* the markers of a uint8 (0xcc) and of a big-endian uint16 (0xcd)
MP_UINT8 == 204
MP_UINT16 == 205

IsFixMap(b) == b \in 128..143
IsFixArray(b) == b \in 144..159
IsFixStr(b) == b \in 160..191

mp_encode_array(n) == <<144 + n>>
mp_encode_map(n) == <<128 + n>>
mp_encode_nil == <<MP_NIL>>
mp_encode_uint(n) ==
    IF n < 128 THEN <<n>>
    ELSE IF n < 256 THEN <<MP_UINT8, n>>
    ELSE <<MP_UINT16, n \div 256, n % 256>>

mp_decode_uint(d, p) ==
    IF d[p] = MP_UINT8 THEN d[p + 1]
    ELSE IF d[p] = MP_UINT16 THEN d[p + 1] * 256 + d[p + 2]
    ELSE d[p]
mp_encode_str(s) == <<160 + Len(s)>> \o s

\* mp_typeof
mp_typeof(b) ==
    IF IsFixArray(b) THEN "MP_ARRAY"
    ELSE IF IsFixMap(b) THEN "MP_MAP"
    ELSE IF IsFixStr(b) THEN "MP_STR"
    ELSE IF b = MP_NIL THEN "MP_NIL"
    ELSE "MP_UINT"

\* mp_decode_array / mp_decode_map: the element count of the header byte
mp_decode_array(b) == b - 144
mp_decode_map(b) == b - 128

\* mp_next as msgpuck runs it: a counter k of values still to skip
RECURSIVE MpSkip(_, _, _)
MpSkip(d, p, k) ==
    IF k = 0 \/ p > Len(d) THEN p
    ELSE LET b == d[p] IN
         IF IsFixArray(b) THEN MpSkip(d, p + 1, k - 1 + (b - 144))
         ELSE IF IsFixMap(b) THEN MpSkip(d, p + 1, k - 1 + 2 * (b - 128))
         ELSE IF IsFixStr(b) THEN MpSkip(d, p + 1 + (b - 160), k - 1)
         ELSE IF b = MP_UINT8 THEN MpSkip(d, p + 2, k - 1)
         ELSE IF b = MP_UINT16 THEN MpSkip(d, p + 3, k - 1)
         ELSE MpSkip(d, p + 1, k - 1)

\* position after the value that starts at p
mp_next(d, p) == MpSkip(d, p, 1)

\* the bytes of d in [p, q)
Bytes(d, p, q) == SubSeq(d, p, q - 1)

\* the string body of the fixstr at p
mp_decode_str(d, p) == Bytes(d, p + 1, p + 1 + (d[p] - 160))

(***************************************************************************)
(* Tuple formats.  A format holds the field tree (json tree of             *)
(* tuple_field), the size of the field map in bytes, the number of         *)
(* top-level fields covered by indexes and the depth of the tree.          *)
(***************************************************************************)
TUPLE_OFFSET_SLOT_NIL == 2147483647

NumTok(i) == [type |-> "JSON_TOKEN_NUM", num |-> i, str |-> <<>>]
StrTok(s) == [type |-> "JSON_TOKEN_STR", num |-> -1, str |-> s]

\* the root of every field tree
RootId == 0

Field(id, parent, token, key, slot) ==
    [id |-> id, parent |-> parent, token |-> token,
     is_key_part |-> key, offset_slot |-> slot]

StrA == <<97>>
StrB == <<98>>

\* env->key_format: no fields, no field map
KeyFormatId == 0

KeyFormat ==
    [id |-> KeyFormatId, field_map_size |-> 0, index_field_count |-> 0,
     fields_depth |-> 1, fields |-> {}]

\* indexes over [0], [2].a and [3]; field [1] is declared and not indexed
Format1 ==
    [id |-> 1, field_map_size |-> 8, index_field_count |-> 4,
     fields_depth |-> 2,
     fields |-> { Field(1, RootId, NumTok(0), TRUE, TUPLE_OFFSET_SLOT_NIL),
                  Field(2, RootId, NumTok(1), FALSE, TUPLE_OFFSET_SLOT_NIL),
                  Field(3, RootId, NumTok(2), TRUE, TUPLE_OFFSET_SLOT_NIL),
                  Field(4, 3, StrTok(StrA), TRUE, -1),
                  Field(5, RootId, NumTok(3), TRUE, -2) }]

\* indexes over [0] and [1][1]
Format2 ==
    [id |-> 2, field_map_size |-> 4, index_field_count |-> 2,
     fields_depth |-> 2,
     fields |-> { Field(1, RootId, NumTok(0), TRUE, TUPLE_OFFSET_SLOT_NIL),
                  Field(2, RootId, NumTok(1), TRUE, TUPLE_OFFSET_SLOT_NIL),
                  Field(3, 2, NumTok(1), TRUE, -1) }]

Formats == {KeyFormat, Format1, Format2}
TupleFormats == {Format1, Format2}
FormatIds == {f.id : f \in Formats}

\* tuple_format(stmt): the format of a format id
tuple_format_by_id(id) == CHOOSE f \in Formats : f.id = id

\* vy_stmt_is_key_format
vy_stmt_is_key_format(format) == format.id = KeyFormatId

\* number of uint32_t slots of the field map
SlotCount(format) == format.field_map_size \div 4

\* index in the field map sequence of offset slot s (slots are negative and
\* counted back from the start of the data)
SlotIndex(format, s) == SlotCount(format) + 1 + s

\* json_tree_lookup_entry: the child of parent with the token, or none
NoField == Field(-1, -1, NumTok(-1), FALSE, TUPLE_OFFSET_SLOT_NIL)

json_tree_lookup_entry(format, parent, token) ==
    LET hit == {f \in format.fields : f.parent = parent /\ f.token = token}
    IN  IF hit = {} THEN NoField ELSE CHOOSE f \in hit : TRUE

\* the path of tokens from the root to a field
RECURSIVE FieldPath(_, _)
FieldPath(format, id) ==
    IF id = RootId THEN <<>>
    ELSE LET f == CHOOSE g \in format.fields : g.id = id
         IN  Append(FieldPath(format, f.parent), f.token)

(***************************************************************************)
(* Navigation in MessagePack data by a path of tokens.                     *)
(***************************************************************************)
\* positions of the values stored under string key s in the n pairs from q
RECURSIVE MapScan(_, _, _, _)
MapScan(d, q, n, s) ==
    IF n = 0 \/ q > Len(d) THEN {}
    ELSE LET vq == mp_next(d, q)
             nq == mp_next(d, vq)
         IN  (IF IsFixStr(d[q]) /\ mp_decode_str(d, q) = s /\ vq <= Len(d)
              THEN {vq} ELSE {})
             \cup MapScan(d, nq, n - 1, s)

\* positions of the children of the container at p that a token names
ChildPos(d, p, token) ==
    IF p > Len(d) THEN {}
    ELSE IF token.type = "JSON_TOKEN_NUM"
    THEN IF IsFixArray(d[p]) /\ token.num < mp_decode_array(d[p])
         THEN {MpSkip(d, p + 1, token.num)} ELSE {}
    ELSE IF IsFixMap(d[p])
         THEN MapScan(d, p + 1, mp_decode_map(d[p]), token.str) ELSE {}

\* positions in d of the values a path leads to, starting at the set ps
RECURSIVE PathPos(_, _, _)
PathPos(d, ps, path) ==
    IF path = <<>> THEN ps
    ELSE PathPos(d, UNION {ChildPos(d, p, Head(path)) : p \in ps}, Tail(path))

Max(S) == CHOOSE x \in S : \A y \in S : y <= x

(***************************************************************************)
(* mp_stack: frames <<type, count, curr>>, the top frame last.             *)
(***************************************************************************)
Frame(type, count) == [type |-> type, count |-> count, curr |-> -1]

mp_stack_push(stack, type, count) == Append(stack, Frame(type, count))
mp_stack_pop(stack) == SubSeq(stack, 1, Len(stack) - 1)
mp_stack_is_empty(stack) == Len(stack) = 0
mp_stack_is_full(stack, size) == Len(stack) >= size
mp_stack_type(stack) == stack[Len(stack)].type

\* mp_stack_advance: the next index of the top frame, -1 when it is exhausted
mp_stack_can_advance(stack) ==
    stack[Len(stack)].curr < stack[Len(stack)].count - 1

mp_stack_advanced(stack) ==
    [stack EXCEPT ![Len(stack)].curr = stack[Len(stack)].curr + 1]

FieldParent(format, id) ==
    IF id = RootId THEN RootId
    ELSE (CHOOSE g \in format.fields : g.id = id).parent

(***************************************************************************)
(* vy_stmt_new_surrogate_delete_raw, the traversal (lines 449-505).        *)
(* st: src_pos (position in the source), out (bytes written at data),      *)
(* stack, parent (id of the parent field), field_map.                      *)
(***************************************************************************)
\* the inner loop `while ((idx = mp_stack_advance(&stack)) == -1)`
RECURSIVE SdPop(_, _)
SdPop(format, st) ==
    IF mp_stack_can_advance(st.stack)
    THEN [st EXCEPT !.stack = mp_stack_advanced(st.stack)]
    ELSE LET popped == mp_stack_pop(st.stack) IN
         IF mp_stack_is_empty(popped)
         THEN [st EXCEPT !.stack = popped]
         ELSE SdPop(format, [st EXCEPT !.stack = popped,
                                       !.parent = FieldParent(format, st.parent)])

\* one iteration of `while (true)` after the index was advanced to idx
SdVisit(format, src, st) ==
    LET idx == st.stack[Len(st.stack)].curr
        isMap == mp_stack_type(st.stack) = "MP_MAP"
    IN
    IF isMap /\ mp_typeof(src[st.src_pos]) # "MP_STR"
    THEN \* a key that is not a string: the key and the value are skipped
         [st EXCEPT !.src_pos = mp_next(src, mp_next(src, st.src_pos))]
    ELSE
    LET token == IF isMap THEN StrTok(mp_decode_str(src, st.src_pos))
                 ELSE NumTok(idx)
        pos1 == IF isMap THEN mp_next(src, st.src_pos) ELSE st.src_pos
        out1 == IF isMap THEN st.out \o mp_encode_str(token.str) ELSE st.out
        field == json_tree_lookup_entry(format, st.parent, token)
    IN
    IF field = NoField \/ ~field.is_key_part
    THEN [st EXCEPT !.src_pos = mp_next(src, pos1),
                    !.out = out1 \o mp_encode_nil]
    ELSE
    LET fm1 == IF field.offset_slot # TUPLE_OFFSET_SLOT_NIL
               THEN [st.field_map EXCEPT
                        ![SlotIndex(format, field.offset_slot)] = Len(out1)]
               ELSE st.field_map
        type == mp_typeof(src[pos1])
    IN
    IF type \in {"MP_ARRAY", "MP_MAP"}
       /\ ~mp_stack_is_full(st.stack, format.fields_depth)
    THEN LET size == IF type = "MP_ARRAY" THEN mp_decode_array(src[pos1])
                     ELSE mp_decode_map(src[pos1])
         IN  [src_pos |-> pos1 + 1,
              out |-> out1 \o (IF type = "MP_ARRAY" THEN mp_encode_array(size)
                               ELSE mp_encode_map(size)),
              stack |-> mp_stack_push(st.stack, type, size),
              parent |-> field.id,
              field_map |-> fm1]
    ELSE LET next == mp_next(src, pos1)
         IN  [st EXCEPT !.src_pos = next,
                        !.out = out1 \o Bytes(src, pos1, next),
                        !.field_map = fm1]

RECURSIVE SdLoop(_, _, _)
SdLoop(format, src, st) ==
    LET adv == SdPop(format, st) IN
    IF mp_stack_is_empty(adv.stack) THEN adv
    ELSE SdLoop(format, src, SdVisit(format, src, adv))

Min(a, b) == IF a < b THEN a ELSE b

Zeros(n) == [i \in 1..n |-> 0]

\* lines 421-447 and the loop: the synthesized data and field map
\* the source's field count taken for the output
SurrogateTraverse_all_fields(format, src) ==
    LET src_count == mp_decode_array(src[1])
        field_count == src_count
    IN  SdLoop(format, src,
               [src_pos |-> 2,
                out |-> mp_encode_array(field_count),
                stack |-> mp_stack_push(<<>>, "MP_ARRAY", field_count),
                parent |-> RootId,
                field_map |-> Zeros(SlotCount(format))])

SurrogateTraverse(format, src) ==
    LET src_count == mp_decode_array(src[1])
        field_count == Min(src_count, format.index_field_count)
    IN  SdLoop(format, src,
               [src_pos |-> 2,
                out |-> mp_encode_array(field_count),
                stack |-> mp_stack_push(<<>>, "MP_ARRAY", field_count),
                parent |-> RootId,
                field_map |-> Zeros(SlotCount(format))])

(***************************************************************************)
(* Statements.  A statement is the struct vy_stmt header (refs,            *)
(* format_id, bsize, data_offset, lsn, type, flags) followed by the field  *)
(* map and the data.  bsize is a uint32_t kept as limbs.                   *)
(***************************************************************************)
\* sizeof(struct vy_stmt)
HeaderSize == 32

\* env->max_tuple_size, set by vy_stmt_env_create
MaxTupleSize == 1024 * 1024

IPROTO_INSERT == 2
IPROTO_REPLACE == 3
IPROTO_UPDATE == 4
IPROTO_DELETE == 5
IPROTO_UPSERT == 9

VY_STMT_DEFERRED_DELETE == 1
VY_STMT_SKIP_READ == 2
VY_STMT_UPDATE == 4
VY_STMT_FLAGS_ALL == 7

\* enum vy_stmt_meta_key
VY_STMT_FLAGS == 1

Contexts == {"main", "worker"}

\* cord_is_main()
cord_is_main(ctx) == ctx = "main"

\* tuple_size(stmt) = data_offset + bsize, as a 32-bit sum
tuple_size(stmt) == U32Add(U32(stmt.data_offset), stmt.bsize)

\* addresses malloc can return: the free slots of the heap
FreeSlots == (1..MaxRecs) \ DOMAIN heap

\* malloc finds memory when the system has some (ok) and the heap a slot
Malloc(ok) == ok /\ FreeSlots # {}

NoStmt ==
    [refs |-> -1, format_id |-> -1, bsize |-> U32(0), data_offset |-> 0,
     lsn |-> 0, type |-> 0, flags |-> 0, field_map |-> <<>>, data |-> <<>>]

\* what an operation hands back: ok, the diagnostic, the statement, the sizes
\* asked of malloc, the format reference counters and the region's used size
Outcome(ok, err, stmt, mallocs, refs, used) ==
    [ok |-> ok, err |-> err, stmt |-> stmt, mallocs |-> mallocs,
     fmtRefs |-> refs, regionUsed |-> used]

(***************************************************************************)
(* vy_stmt_alloc (lines 155-184).  mallocOk: whether malloc finds memory.  *)
(***************************************************************************)
vy_stmt_alloc_total_size(format, bsize) ==
    U32Add(U32Add(U32(HeaderSize), U32(format.field_map_size)), bsize)

\* the reference taken on every cord
vy_stmt_alloc_ref_any_cord(format, ctx, refs) ==
    [refs EXCEPT ![format.id] = refs[format.id] + 1]

\* lines 176-177
vy_stmt_alloc_ref(format, ctx, refs) ==
    IF cord_is_main(ctx)
    THEN [refs EXCEPT ![format.id] = refs[format.id] + 1]
    ELSE refs

\* the format referenced before malloc is asked
vy_stmt_alloc_ref_first(format, bsize, ctx, mallocOk, refs, used) ==
    LET total_size == vy_stmt_alloc_total_size(format, bsize) IN
    IF U32Gt(total_size, U32(MaxTupleSize))
    THEN Outcome(FALSE, "ER_VINYL_MAX_TUPLE_SIZE", NoStmt, <<>>, refs, used)
    ELSE IF ~mallocOk
    THEN Outcome(FALSE, "OutOfMemory", NoStmt, <<total_size>>,
                 vy_stmt_alloc_ref(format, ctx, refs), used)
    ELSE Outcome(TRUE, "none",
                 [refs |-> 1, format_id |-> format.id, bsize |-> bsize,
                  data_offset |-> HeaderSize + format.field_map_size,
                  lsn |-> 0, type |-> 0, flags |-> 0,
                  field_map |-> <<>>, data |-> <<>>],
                 <<total_size>>, vy_stmt_alloc_ref(format, ctx, refs), used)

vy_stmt_alloc(format, bsize, ctx, mallocOk, refs, used) ==
    LET total_size == vy_stmt_alloc_total_size(format, bsize) IN
    IF U32Gt(total_size, U32(MaxTupleSize))
    THEN Outcome(FALSE, "ER_VINYL_MAX_TUPLE_SIZE", NoStmt, <<>>, refs, used)
    ELSE IF ~mallocOk
    THEN Outcome(FALSE, "OutOfMemory", NoStmt, <<total_size>>, refs, used)
    ELSE Outcome(TRUE, "none",
                 [refs |-> 1, format_id |-> format.id, bsize |-> bsize,
                  data_offset |-> HeaderSize + format.field_map_size,
                  lsn |-> 0, type |-> 0, flags |-> 0,
                  field_map |-> <<>>, data |-> <<>>],
                 <<total_size>>, vy_stmt_alloc_ref(format, ctx, refs), used)

(***************************************************************************)
(* vy_tuple_delete (lines 98-114): the format's reference is dropped on    *)
(* the main cord only; the memory is freed.                                *)
(***************************************************************************)
\* the reference dropped on every cord
vy_tuple_delete_any_cord(format, ctx, refs) ==
    [refs EXCEPT ![format.id] = refs[format.id] - 1]

vy_tuple_delete(format, ctx, refs) ==
    IF cord_is_main(ctx)
    THEN [refs EXCEPT ![format.id] = refs[format.id] - 1]
    ELSE refs

(***************************************************************************)
(* The fiber region (&fiber()->gc).  ok: whether the slab cache can feed   *)
(* the region; the region holds at most RegionCap bytes.                   *)
(***************************************************************************)
region_can_alloc(used, size, ok) == ok /\ used + size <= RegionCap

\* tuple_field_map_create asks the region for the field map, and for nothing
\* when the format has no field map
field_map_can_alloc(format, used, ok) ==
    format.field_map_size = 0 \/ region_can_alloc(used, format.field_map_size, ok)

region_alloc(used, size) == used + size

\* the region left as it is
region_truncate_skipped(used, svp) == used

\* region_truncate(region, region_svp), lines 343, 518, 535 and 554
region_truncate(used, svp) == svp

(***************************************************************************)
(* tuple_field_map_create with validate = false: the offset of every      *)
(* indexed field that has a slot, 0 for a field the tuple does not hold.   *)
(***************************************************************************)
SlotFields(format) ==
    {f \in format.fields : f.offset_slot # TUPLE_OFFSET_SLOT_NIL}

FieldOffsets(format, data, f) ==
    {p - 1 : p \in PathPos(data, {1}, FieldPath(format, f.id))}

tuple_field_map_create(format, data) ==
    [i \in 1..SlotCount(format) |->
        LET own == {f \in SlotFields(format) :
                        SlotIndex(format, f.offset_slot) = i}
            offs == UNION {FieldOffsets(format, data, f) : f \in own}
        IN  IF offs = {} THEN 0 ELSE Max(offs)]

(***************************************************************************)
(* vy_stmt_new_with_ops (lines 287-345).  ops: the operations, already     *)
(* concatenated.  regionOk, mallocOk: whether the region and malloc find   *)
(* memory.                                                                 *)
(***************************************************************************)
vy_stmt_new_with_ops(format, tuple, ops, type, ctx, regionOk, mallocOk, refs, used) ==
    LET region_svp == used IN
    IF ~field_map_can_alloc(format, used, regionOk)
    THEN Outcome(FALSE, "OutOfMemory", NoStmt, <<>>, refs,
                 region_truncate(used, region_svp))
    ELSE
    LET used1 == region_alloc(used, format.field_map_size)
        field_map == tuple_field_map_create(format, tuple)
        bsize == Len(tuple) + Len(ops)
        a == vy_stmt_alloc(format, U32(bsize), ctx, mallocOk, refs, used1)
    IN  IF ~a.ok
        THEN [a EXCEPT !.regionUsed = region_truncate(used1, region_svp)]
        ELSE [a EXCEPT !.stmt = [a.stmt EXCEPT !.field_map = field_map,
                                               !.data = tuple \o ops,
                                               !.type = type],
                       !.regionUsed = region_truncate(used1, region_svp)]

(***************************************************************************)
(* vy_key_new (lines 240-265).                                             *)
(***************************************************************************)
vy_key_new(format, key, part_count, ctx, mallocOk, refs, used) ==
    LET key_end == MpSkip(key, 1, part_count)
        key_size == key_end - 1
        bsize == Len(mp_encode_array(part_count)) + key_size
        a == vy_stmt_alloc(format, U32(bsize), ctx, mallocOk, refs, used)
    IN  IF ~a.ok THEN a
        ELSE [a EXCEPT !.stmt = [a.stmt EXCEPT
                 !.data = mp_encode_array(part_count)
                          \o Bytes(key, 1, key_end)]]

(***************************************************************************)
(* vy_upsert_data_range / vy_stmt_upsert_ops: the tuple of an UPSERT ends  *)
(* where its first MessagePack value ends; the operations follow.          *)
(***************************************************************************)
vy_upsert_data_size(stmt) == mp_next(stmt.data, 1) - 1

vy_upsert_data_range(stmt) == SubSeq(stmt.data, 1, vy_upsert_data_size(stmt))

vy_stmt_upsert_ops(stmt) ==
    SubSeq(stmt.data, vy_upsert_data_size(stmt) + 1, Len(stmt.data))

(***************************************************************************)
(* vy_stmt_replace_from_upsert (lines 380-401).                            *)
(***************************************************************************)
\* the LSN left as vy_stmt_alloc set it
vy_stmt_replace_from_upsert_no_lsn(upsert, ctx, mallocOk, refs, used) ==
    LET bsize == vy_upsert_data_size(upsert)
        format == tuple_format_by_id(upsert.format_id)
        a == vy_stmt_alloc(format, U32(bsize), ctx, mallocOk, refs, used)
    IN  IF ~a.ok THEN a
        ELSE [a EXCEPT !.stmt = [a.stmt EXCEPT
                 !.field_map = upsert.field_map,
                 !.data = SubSeq(upsert.data, 1, bsize),
                 !.type = IPROTO_REPLACE]]

\* the header's flags copied with the field map and the data
vy_stmt_replace_from_upsert_with_flags(upsert, ctx, mallocOk, refs, used) ==
    LET bsize == vy_upsert_data_size(upsert)
        format == tuple_format_by_id(upsert.format_id)
        a == vy_stmt_alloc(format, U32(bsize), ctx, mallocOk, refs, used)
    IN  IF ~a.ok THEN a
        ELSE [a EXCEPT !.stmt = [a.stmt EXCEPT
                 !.field_map = upsert.field_map,
                 !.data = SubSeq(upsert.data, 1, bsize),
                 !.type = IPROTO_REPLACE,
                 !.flags = upsert.flags,
                 !.lsn = upsert.lsn]]

vy_stmt_replace_from_upsert(upsert, ctx, mallocOk, refs, used) ==
    LET bsize == vy_upsert_data_size(upsert)
        format == tuple_format_by_id(upsert.format_id)
        a == vy_stmt_alloc(format, U32(bsize), ctx, mallocOk, refs, used)
    IN  IF ~a.ok THEN a
        ELSE [a EXCEPT !.stmt = [a.stmt EXCEPT
                 !.field_map = upsert.field_map,
                 !.data = SubSeq(upsert.data, 1, bsize),
                 !.type = IPROTO_REPLACE,
                 !.lsn = upsert.lsn]]

(***************************************************************************)
(* vy_stmt_dup (lines 186-202).                                            *)
(***************************************************************************)
\* the reference counter copied with the header
vy_stmt_dup_refs_copied(stmt) == stmt.refs

\* res->refs = 1, line 199
vy_stmt_dup_refs(stmt) == 1

vy_stmt_dup(stmt, ctx, mallocOk, refs, used) ==
    LET a == vy_stmt_alloc(tuple_format_by_id(stmt.format_id), stmt.bsize,
                           ctx, mallocOk, refs, used)
    IN  IF ~a.ok THEN a
        ELSE \* memcpy(res, stmt, tuple_size(stmt)); res->refs = 1
             [a EXCEPT !.stmt = [stmt EXCEPT !.refs = vy_stmt_dup_refs(stmt)]]

(***************************************************************************)
(* vy_stmt_dup_lsregion (lines 204-238).  An lsregion allocation is its    *)
(* size, its id, the bytes before the statement and the statement.         *)
(* lsOk: whether lsregion_alloc finds memory.                              *)
(***************************************************************************)
\* no byte reserved in front of an UPSERT
vy_stmt_dup_lsregion_alloc_size_plain(stmt) == U32Val(tuple_size(stmt))

\* lines 210-213
vy_stmt_dup_lsregion_alloc_size(stmt) ==
    IF stmt.type = IPROTO_UPSERT
    THEN U32Val(tuple_size(stmt)) + 1
    ELSE U32Val(tuple_size(stmt))

vy_stmt_dup_lsregion(stmt, alloc_id, lsOk) ==
    IF ~lsOk
    THEN [ok |-> FALSE, err |-> "OutOfMemory", alloc |-> <<>>]
    ELSE [ok |-> TRUE, err |-> "none",
          alloc |-> <<[size |-> vy_stmt_dup_lsregion_alloc_size(stmt),
                       id |-> alloc_id,
                       lead |-> IF stmt.type = IPROTO_UPSERT THEN <<0>>
                                ELSE <<>>,
                       stmt |-> [stmt EXCEPT !.refs = 0]]>>]

(***************************************************************************)
(* vy_stmt_new_surrogate_delete_raw (lines 403-520).  rfail: which of the  *)
(* region allocations of the call fails (0: none).                         *)
(***************************************************************************)
\* sizeof(struct mp_frame)
FrameSize == 12

vy_stmt_new_surrogate_delete_raw(format, src, ctx, rfail, mallocOk, refs, used) ==
    LET src_size == Len(src)
        total_size == src_size + format.field_map_size
        region_svp == used
    IN
    IF ~region_can_alloc(used, total_size, rfail # 1)
    THEN \* return NULL
         Outcome(FALSE, "OutOfMemory", NoStmt, <<>>, refs, used)
    ELSE
    LET used1 == region_alloc(used, total_size)
        frames_sz == format.fields_depth * FrameSize
    IN
    IF ~region_can_alloc(used1, frames_sz, rfail # 2)
    THEN \* goto out
         Outcome(FALSE, "OutOfMemory", NoStmt, <<>>, refs,
                 region_truncate(used1, region_svp))
    ELSE
    LET used2 == region_alloc(used1, frames_sz)
        t == SurrogateTraverse(format, src)
        bsize == Len(t.out)
        a == vy_stmt_alloc(format, U32(bsize), ctx, mallocOk, refs, used2)
    IN  IF ~a.ok
        THEN [a EXCEPT !.regionUsed = region_truncate(used2, region_svp)]
        ELSE [a EXCEPT !.stmt = [a.stmt EXCEPT !.data = t.out,
                                               !.field_map = t.field_map,
                                               !.type = IPROTO_DELETE],
                       !.regionUsed = region_truncate(used2, region_svp)]

(***************************************************************************)
(* Key definitions and tuple_extract_key / tuple_extract_key_raw: the key  *)
(* is the array of the values the parts name, nil for a missing one,       *)
(* allocated on the fiber region.                                          *)
(***************************************************************************)
KeyDef(parts) == [part_count |-> Len(parts), parts |-> parts]

PartBytes(data, path) ==
    LET ps == PathPos(data, {1}, path) IN
    IF ps = {} THEN mp_encode_nil
    ELSE LET p == CHOOSE q \in ps : \A r \in ps : q <= r
         IN  Bytes(data, p, mp_next(data, p))

RECURSIVE PartsBytes(_, _)
PartsBytes(data, parts) ==
    IF parts = <<>> THEN <<>>
    ELSE PartBytes(data, Head(parts)) \o PartsBytes(data, Tail(parts))

tuple_extract_key_raw(data, key_def) ==
    mp_encode_array(key_def.part_count) \o PartsBytes(data, key_def.parts)

(***************************************************************************)
(* vy_stmt_extract_key / vy_stmt_extract_key_raw (lines 522-556).          *)
(***************************************************************************)
vy_stmt_extract_key_raw(data, key_def, format, ctx, rfail, mallocOk, refs, used) ==
    LET region_svp == used
        key_raw == tuple_extract_key_raw(data, key_def)
    IN
    IF ~region_can_alloc(used, Len(key_raw), rfail # 1)
    THEN \* key_raw == NULL: return NULL
         Outcome(FALSE, "OutOfMemory", NoStmt, <<>>, refs, used)
    ELSE
    LET used1 == region_alloc(used, Len(key_raw))
        part_count == mp_decode_array(key_raw[1])
        k == vy_key_new(format, Tail(key_raw), part_count, ctx, mallocOk,
                        refs, used1)
    IN  [k EXCEPT !.regionUsed = region_truncate(used1, region_svp)]

vy_stmt_extract_key(stmt, key_def, format, ctx, rfail, mallocOk, refs, used) ==
    vy_stmt_extract_key_raw(stmt.data, key_def, format, ctx, rfail, mallocOk,
                            refs, used)

(***************************************************************************)
(* vy_stmt_persistent_flags (lines 61-82).                                 *)
(***************************************************************************)
\* the mask of the primary index used for every index
vy_stmt_persistent_flags_one_mask(stmt, is_primary) ==
    BitAnd(stmt.flags, BitAnd(VY_STMT_FLAGS_ALL, BitNot8(VY_STMT_UPDATE)))

vy_stmt_persistent_flags(stmt, is_primary) ==
    LET mask0 == VY_STMT_FLAGS_ALL
        mask1 == BitAnd(mask0, BitNot8(VY_STMT_UPDATE))
        mask2 == IF ~is_primary
                 THEN BitAnd(mask1, BitNot8(VY_STMT_DEFERRED_DELETE))
                 ELSE mask1
    IN  BitAnd(stmt.flags, mask2)

(***************************************************************************)
(* struct request and struct xrow_header.  A byte range that is not set    *)
(* (NULL) is the empty sequence.                                           *)
(***************************************************************************)
Request(type, space_id) ==
    [type |-> type, space_id |-> space_id, key |-> <<>>, tuple |-> <<>>,
     ops |-> <<>>, tuple_meta |-> <<>>]

\* memset(xrow, 0, sizeof(*xrow))
ZeroXrow == [type |-> 0, lsn |-> 0, bodycnt |-> 0, body |-> Request(0, 0)]

(***************************************************************************)
(* vy_stmt_meta_encode (lines 590-611).                                    *)
(***************************************************************************)
\* mp_sizeof_map(1) * 2 * mp_sizeof_uint(UINT64_MAX)
MetaBufLen == 1 * 2 * 9

vy_stmt_meta_bytes(flags) ==
    mp_encode_map(1) \o mp_encode_uint(VY_STMT_FLAGS) \o mp_encode_uint(flags)

vy_stmt_meta_encode(stmt, request, is_primary, regionOk, used) ==
    LET flags == vy_stmt_persistent_flags(stmt, is_primary) IN
    IF flags = 0
    THEN [rc |-> 0, request |-> request, regionUsed |-> used]
    ELSE IF ~region_can_alloc(used, MetaBufLen, regionOk)
    THEN [rc |-> -1, request |-> request, regionUsed |-> used]
    ELSE [rc |-> 0,
          request |-> [request EXCEPT !.tuple_meta = vy_stmt_meta_bytes(flags)],
          regionUsed |-> region_alloc(used, MetaBufLen)]

(***************************************************************************)
(* xrow_encode_dml / xrow_decode_dml: the body of a DML row carries the    *)
(* request's type and those of space_id, key, tuple, ops and tuple_meta    *)
(* that are set; the encoder takes its buffer from the fiber region.       *)
(***************************************************************************)
XrowMapLenMax == 40

xrow_encode_dml_len(request) ==
    XrowMapLenMax + Len(request.key) + Len(request.ops)
    + Len(request.tuple_meta) + Len(request.tuple)

\* the keys a request of the type must carry (dml_request_key_map without
\* IPROTO_SPACE_ID)
xrow_decode_dml_ok(x) ==
    /\ x.bodycnt = 1
    /\ x.type \in {IPROTO_INSERT, IPROTO_REPLACE} => x.body.tuple # <<>>
    /\ x.type = IPROTO_DELETE => x.body.key # <<>>
    /\ x.type = IPROTO_UPDATE => x.body.key # <<>> /\ x.body.tuple # <<>>
    /\ x.type = IPROTO_UPSERT => x.body.tuple # <<>> /\ x.body.ops # <<>>

xrow_decode_dml(x) == [x.body EXCEPT !.type = x.type]

vy_stmt_is_key(stmt) == vy_stmt_is_key_format(tuple_format_by_id(stmt.format_id))

(***************************************************************************)
(* vy_stmt_encode_primary (lines 638-684) and vy_stmt_encode_secondary     *)
(* (lines 686-719).  rfail: which region allocation of the call fails: 1   *)
(* tuple_extract_key, 2 vy_stmt_meta_encode, 3 xrow_encode_dml, 0 none.    *)
(***************************************************************************)
EncodeResult(rc, x, used) == [rc |-> rc, xrow |-> x, regionUsed |-> used]

\* lines 642-645 and 690-693: the row is zeroed, then typed and stamped
\* the row's LSN left at 0
vy_stmt_encode_header_no_lsn(value) == [ZeroXrow EXCEPT !.type = value.type]

vy_stmt_encode_header(value) ==
    [ZeroXrow EXCEPT !.type = value.type, !.lsn = value.lsn]

\* lines 678-683 and 712-718
vy_stmt_encode_finish(value, request, is_primary, x0, rfail, used) ==
    LET m == vy_stmt_meta_encode(value, request, is_primary, rfail # 2, used)
    IN
    IF m.rc # 0 THEN EncodeResult(-1, x0, m.regionUsed)
    ELSE IF ~region_can_alloc(m.regionUsed, xrow_encode_dml_len(m.request),
                              rfail # 3)
    THEN EncodeResult(-1, [x0 EXCEPT !.bodycnt = -1], m.regionUsed)
    ELSE EncodeResult(0, [x0 EXCEPT !.bodycnt = 1, !.body = m.request],
                      region_alloc(m.regionUsed,
                                   xrow_encode_dml_len(m.request)))

vy_stmt_encode_primary(value, key_def, space_id, rfail, used) ==
    LET type == value.type
        x0 == vy_stmt_encode_header(value)
        request == Request(type, space_id)
    IN
    IF type = IPROTO_DELETE
    THEN IF vy_stmt_is_key(value)
         THEN vy_stmt_encode_finish(value, [request EXCEPT !.key = value.data],
                                    TRUE, x0, rfail, used)
         ELSE LET extracted == tuple_extract_key_raw(value.data, key_def) IN
              IF ~region_can_alloc(used, Len(extracted), rfail # 1)
              THEN EncodeResult(-1, x0, used)
              ELSE vy_stmt_encode_finish(
                       value, [request EXCEPT !.key = extracted], TRUE, x0,
                       rfail, region_alloc(used, Len(extracted)))
    ELSE IF type \in {IPROTO_INSERT, IPROTO_REPLACE}
    THEN vy_stmt_encode_finish(value, [request EXCEPT !.tuple = value.data],
                               TRUE, x0, rfail, used)
    ELSE \* IPROTO_UPSERT
         vy_stmt_encode_finish(
             value, [request EXCEPT !.tuple = vy_upsert_data_range(value),
                                    !.ops = vy_stmt_upsert_ops(value)],
             TRUE, x0, rfail, used)

vy_stmt_encode_secondary(value, cmp_def, rfail, used) ==
    LET type == value.type
        x0 == vy_stmt_encode_header(value)
        request == Request(type, 0)
        isKey == vy_stmt_is_key(value)
        extracted == IF isKey THEN value.data
                     ELSE tuple_extract_key_raw(value.data, cmp_def)
    IN
    IF ~isKey /\ ~region_can_alloc(used, Len(extracted), rfail # 1)
    THEN EncodeResult(-1, x0, used)
    ELSE LET used1 == IF isKey THEN used
                      ELSE region_alloc(used, Len(extracted))
         IN  IF type \in {IPROTO_REPLACE, IPROTO_INSERT}
             THEN vy_stmt_encode_finish(
                      value, [request EXCEPT !.tuple = extracted], FALSE, x0,
                      rfail, used1)
             ELSE \* assert(type == IPROTO_DELETE)
                  vy_stmt_encode_finish(
                      value, [request EXCEPT !.key = extracted], FALSE, x0,
                      rfail, used1)

(***************************************************************************)
(* vy_stmt_meta_decode (lines 616-636) and vy_stmt_decode (lines 721-766). *)
(***************************************************************************)
\* vy_stmt_set_flags takes a uint8_t
vy_stmt_set_flags(stmt, flags) == [stmt EXCEPT !.flags = flags % 256]

vy_stmt_set_lsn(stmt, lsn) == [stmt EXCEPT !.lsn = lsn]

\* the loop over the size entries of the map, data at position p
RECURSIVE MetaDecodeLoop(_, _, _, _)
MetaDecodeLoop(meta, p, n, stmt) ==
    IF n = 0 THEN stmt
    ELSE LET key == mp_decode_uint(meta, p)
             vp == mp_next(meta, p)
         IN  IF key = VY_STMT_FLAGS
             THEN MetaDecodeLoop(meta, mp_next(meta, vp), n - 1,
                                 vy_stmt_set_flags(stmt,
                                                   mp_decode_uint(meta, vp)))
             ELSE MetaDecodeLoop(meta, mp_next(meta, vp), n - 1, stmt)

vy_stmt_meta_decode(request, stmt) ==
    IF request.tuple_meta = <<>> THEN stmt
    ELSE MetaDecodeLoop(request.tuple_meta, 2,
                        mp_decode_map(request.tuple_meta[1]), stmt)

\* the LSN of the row dropped
vy_stmt_decode_lsn_dropped(x) == 0

\* vy_stmt_set_lsn(stmt, xrow->lsn), line 764
vy_stmt_decode_lsn(x) == x.lsn

vy_stmt_decode(x, format, ctx, rfail, mallocOk, refs, used) ==
    IF ~xrow_decode_dml_ok(x)
    THEN Outcome(FALSE, "xrow_decode_dml", NoStmt, <<>>, refs, used)
    ELSE
    LET request == xrow_decode_dml(x) IN
    IF request.type \notin {IPROTO_DELETE, IPROTO_INSERT, IPROTO_REPLACE,
                            IPROTO_UPSERT}
    THEN Outcome(FALSE, "ER_INVALID_RUN_FILE", NoStmt, <<>>, refs, used)
    ELSE
    LET r == IF request.type = IPROTO_DELETE
             THEN vy_stmt_new_with_ops(KeyFormat, request.key, <<>>,
                                       IPROTO_DELETE, ctx, rfail # 1,
                                       mallocOk, refs, used)
             ELSE IF request.type = IPROTO_UPSERT
             THEN vy_stmt_new_with_ops(format, request.tuple, request.ops,
                                       IPROTO_UPSERT, ctx, rfail # 1,
                                       mallocOk, refs, used)
             ELSE vy_stmt_new_with_ops(format, request.tuple, <<>>,
                                       request.type, ctx, rfail # 1,
                                       mallocOk, refs, used)
    IN  IF ~r.ok THEN r
        ELSE [r EXCEPT !.stmt = vy_stmt_set_lsn(
                                    vy_stmt_meta_decode(request, r.stmt),
                                    vy_stmt_decode_lsn(x))]

(***************************************************************************)
(* Inputs.                                                                 *)
(***************************************************************************)
\* [1, 2, {"a": 3}, 4]
T1 == <<148, 1, 2, 129, 161, 97, 3, 4>>
\* [1, 2, {5: 6, "a": 3}, 4, 9]
T2 == <<149, 1, 2, 130, 5, 6, 161, 97, 3, 4, 9>>
\* [1, 2]
T3 == <<146, 1, 2>>
\* [1, 2, {"b": 7}, 4, 9]
T4 == <<149, 1, 2, 129, 161, 98, 7, 4, 9>>
\* [1, 2, 3, 4]
T5 == <<148, 1, 2, 3, 4>>
\* [1, [8], {"a": [3]}, 4]
T6 == <<148, 1, 145, 8, 129, 161, 97, 145, 3, 4>>
\* [1, 2, {"a": 3, "a": 5}, 4]
T7 == <<148, 1, 2, 130, 161, 97, 3, 161, 97, 5, 4>>
\* [1, 2, {"a": 3}, [5, 6]]
T8 == <<148, 1, 2, 129, 161, 97, 3, 146, 5, 6>>
\* [1, [4, 5, 6]]
U1 == <<146, 1, 147, 4, 5, 6>>
\* [1, [4]]
U2 == <<146, 1, 145, 4>>
\* [1, 2, 3]
U3 == <<147, 1, 2, 3>>

Src(format, data) == [format |-> format, data |-> data]

SrcSamples ==
    {Src(Format1, t) : t \in {T1, T2, T3, T4, T5, T6, T7, T8}}
    \cup {Src(Format2, t) : t \in {U1, U2, U3}}

\* [["+", 1, 1]]: the operations of an UPSERT
OpsSamples == {<<145, 147, 161, 43, 1, 1>>}

\* the primary key over [0] and the comparison definitions of the
\* secondary indexes
PrimaryDef == KeyDef(<< <<NumTok(0)>> >>)
CmpDef1 == KeyDef(<< <<NumTok(2), StrTok(StrA)>>, <<NumTok(3)>>, <<NumTok(0)>> >>)
CmpDef2 == KeyDef(<< <<NumTok(1), NumTok(1)>>, <<NumTok(0)>> >>)

CmpDefOf(format_id) == IF format_id = 2 THEN CmpDef2 ELSE CmpDef1
KeyDefsOf(format_id) == {PrimaryDef, CmpDefOf(format_id)}

\* payload sizes handed to the allocator: small ones, the largest that
\* fits a key, the next one, and the largest 32-bit values
AllocSizes ==
    {U32(0), U32(8), U32(MaxTupleSize - HeaderSize),
     U32(MaxTupleSize - HeaderSize + 1),
     <<Limb - 1, Limb - HeaderSize>>, <<Limb - 1, Limb - 1>>}

Types == {IPROTO_INSERT, IPROTO_REPLACE, IPROTO_DELETE, IPROTO_UPSERT}

(***************************************************************************)
(* The state and the record of the last call.                              *)
(***************************************************************************)
Pre == [heap |-> heap, fmtRefs |-> fmtRefs, regionUsed |-> regionUsed,
        lsregion |-> lsregion, xrow |-> xrow]

Call(op, ctx, ok, err, arg, res, mallocs) ==
    [op |-> op, ctx |-> ctx, ok |-> ok, err |-> err, arg |-> arg,
     res |-> res, mallocs |-> mallocs, pre |-> Pre]

\* the address malloc returns
NewAddr == CHOOSE i \in FreeSlots : \A j \in FreeSlots : i <= j

\* the statement at a reference <<"heap", address>> or <<"lsregion", index>>
StmtRefs ==
    {<<"heap", i>> : i \in DOMAIN heap}
    \cup {<<"lsregion", j>> : j \in DOMAIN lsregion}

StmtAt(r) == IF r[1] = "heap" THEN heap[r[2]] ELSE lsregion[r[2]].stmt

\* a statement whose data was written by a constructor
Built(stmt) == stmt.data # <<>>

\* the effect of a call that returns a malloc'ed statement or NULL
Commit(op, ctx, arg, o) ==
    /\ heap' = IF o.ok THEN (NewAddr :> o.stmt) @@ heap ELSE heap
    /\ fmtRefs' = o.fmtRefs
    /\ regionUsed' = o.regionUsed
    /\ UNCHANGED <<lsregion, xrow>>
    /\ last' = Call(op, ctx, o.ok, o.err, arg,
                    IF o.ok THEN NewAddr ELSE 0, o.mallocs)
    /\ nops' = nops + 1
    /\ acct' = IF o.ok
               THEN [acct EXCEPT !.cord = (NewAddr :> ctx) @@ acct.cord]
               ELSE acct

(***************************************************************************)
(* The calls.                                                              *)
(***************************************************************************)
Alloc(format, bsize, ctx, mallocOk) ==
    Commit("vy_stmt_alloc", ctx, [format_id |-> format.id, bsize |-> bsize],
           vy_stmt_alloc(format, bsize, ctx, Malloc(mallocOk), fmtRefs, regionUsed))

\* tuple_ref
TupleRef(i) ==
    /\ heap[i].refs >= 1
    /\ heap[i].refs < MaxRefs
    /\ heap' = [heap EXCEPT ![i].refs = heap[i].refs + 1]
    /\ UNCHANGED <<fmtRefs, regionUsed, lsregion, xrow, acct>>
    /\ last' = Call("tuple_ref", "main", TRUE, "none",
                    [addr |-> i, freed |-> FALSE], 0, <<>>)
    /\ nops' = nops + 1

\* the history after the statement at address i was deleted on cord ctx
Deleted(i, ctx) ==
    [cord |-> [j \in DOMAIN acct.cord \ {i} |-> acct.cord[j]],
     drift |-> [acct.drift EXCEPT ![heap[i].format_id] =
                   acct.drift[heap[i].format_id]
                   + (IF cord_is_main(acct.cord[i]) /\ ~cord_is_main(ctx)
                      THEN 1 ELSE 0)
                   - (IF ~cord_is_main(acct.cord[i]) /\ cord_is_main(ctx)
                      THEN 1 ELSE 0)]]

\* tuple_unref: the last reference deletes the tuple through the format's
\* vtab, which is vy_tuple_delete
TupleUnref(i, ctx) ==
    /\ heap[i].refs >= 1
    /\ IF heap[i].refs - 1 = 0
       THEN /\ heap' = [j \in DOMAIN heap \ {i} |-> heap[j]]
            /\ fmtRefs' = vy_tuple_delete(tuple_format_by_id(heap[i].format_id),
                                          ctx, fmtRefs)
       ELSE /\ heap' = [heap EXCEPT ![i].refs = heap[i].refs - 1]
            /\ fmtRefs' = fmtRefs
    /\ acct' = IF heap[i].refs - 1 = 0 THEN Deleted(i, ctx) ELSE acct
    /\ UNCHANGED <<regionUsed, lsregion, xrow>>
    /\ last' = Call("tuple_unref", ctx, TRUE, "none",
                    [addr |-> i, freed |-> heap[i].refs - 1 = 0], 0, <<>>)
    /\ nops' = nops + 1

Dup(r, ctx, mallocOk) ==
    /\ Built(StmtAt(r))
    /\ Commit("vy_stmt_dup", ctx, [stmt |-> r],
              vy_stmt_dup(StmtAt(r), ctx, Malloc(mallocOk), fmtRefs, regionUsed))

\* lsregion_alloc finds no memory when lsOk is false or the lsregion is full
DupLsregion(r, ctx, alloc_id, lsOk) ==
    /\ Built(StmtAt(r))
    /\ LET o == vy_stmt_dup_lsregion(StmtAt(r), alloc_id,
                                     lsOk /\ Len(lsregion) < MaxArena)
       IN  /\ lsregion' = lsregion \o o.alloc
           /\ last' = Call("vy_stmt_dup_lsregion", ctx, o.ok, o.err,
                           [stmt |-> r],
                           IF o.ok THEN Len(lsregion) + 1 ELSE 0, <<>>)
    /\ UNCHANGED <<heap, fmtRefs, regionUsed, xrow, acct>>
    /\ nops' = nops + 1

\* vy_stmt_new_insert, vy_stmt_new_replace, vy_stmt_new_delete (no
\* operations) and vy_stmt_new_upsert
NewWithOps(src, ops, type, ctx, regionOk, mallocOk) ==
    /\ (type = IPROTO_UPSERT) = (ops # <<>>)
    /\ Commit("vy_stmt_new_with_ops", ctx,
              [format_id |-> src.format.id, tuple |-> src.data, ops |-> ops,
               type |-> type],
              vy_stmt_new_with_ops(src.format, src.data, ops, type, ctx,
                                   regionOk, Malloc(mallocOk), fmtRefs, regionUsed))

\* vy_key_new of the parts of a key
KeyNew(key, part_count, ctx, mallocOk) ==
    Commit("vy_key_new", ctx, [key |-> key, part_count |-> part_count],
           vy_key_new(KeyFormat, key, part_count, ctx, Malloc(mallocOk), fmtRefs,
                      regionUsed))

ReplaceFromUpsert(r, ctx, mallocOk) ==
    /\ Built(StmtAt(r))
    /\ StmtAt(r).type = IPROTO_UPSERT
    /\ Commit("vy_stmt_replace_from_upsert", ctx, [stmt |-> r],
              vy_stmt_replace_from_upsert(StmtAt(r), ctx, Malloc(mallocOk), fmtRefs,
                                          regionUsed))

SurrogateDelete(src, ctx, rfail, mallocOk) ==
    Commit("vy_stmt_new_surrogate_delete_raw", ctx,
           [format_id |-> src.format.id, data |-> src.data],
           vy_stmt_new_surrogate_delete_raw(src.format, src.data, ctx, rfail,
                                            Malloc(mallocOk), fmtRefs, regionUsed))

ExtractKey(r, key_def, ctx, rfail, mallocOk) ==
    /\ Built(StmtAt(r))
    /\ ~vy_stmt_is_key(StmtAt(r))
    /\ key_def \in KeyDefsOf(StmtAt(r).format_id)
    /\ Commit("vy_stmt_extract_key", ctx, [stmt |-> r, key_def |-> key_def],
              vy_stmt_extract_key(StmtAt(r), key_def, KeyFormat, ctx, rfail,
                                  Malloc(mallocOk), fmtRefs, regionUsed))

ExtractKeyRaw(src, key_def, ctx, rfail, mallocOk) ==
    /\ key_def \in KeyDefsOf(src.format.id)
    /\ Commit("vy_stmt_extract_key_raw", ctx,
              [data |-> src.data, key_def |-> key_def],
              vy_stmt_extract_key_raw(src.data, key_def, KeyFormat, ctx,
                                      rfail, Malloc(mallocOk), fmtRefs, regionUsed))

\* the effect of an encoder on the caller's row and on the region
CommitEncode(op, r, key_def, e) ==
    /\ xrow' = e.xrow
    /\ regionUsed' = e.regionUsed
    /\ UNCHANGED <<heap, fmtRefs, lsregion, acct>>
    /\ last' = Call(op, "main", e.rc = 0,
                    IF e.rc = 0 THEN "none" ELSE "OutOfMemory",
                    [stmt |-> r, value |-> StmtAt(r), key_def |-> key_def],
                    0, <<>>)
    /\ nops' = nops + 1

EncodePrimary(r, key_def, space_id, rfail) ==
    /\ Built(StmtAt(r))
    /\ StmtAt(r).type \in Types
    /\ key_def \in KeyDefsOf(StmtAt(r).format_id)
    /\ CommitEncode("vy_stmt_encode_primary", r, key_def,
                    vy_stmt_encode_primary(StmtAt(r), key_def, space_id,
                                           rfail, regionUsed))

EncodeSecondary(r, rfail) ==
    /\ Built(StmtAt(r))
    /\ StmtAt(r).type \in {IPROTO_INSERT, IPROTO_REPLACE, IPROTO_DELETE}
    /\ CommitEncode("vy_stmt_encode_secondary", r,
                    CmpDefOf(StmtAt(r).format_id),
                    vy_stmt_encode_secondary(StmtAt(r),
                                             CmpDefOf(StmtAt(r).format_id),
                                             rfail, regionUsed))

\* what the row handed to the decoder encodes, when it is the row that the
\* call before wrote: <<the encoder's arguments>>, else <<>>
Encoded(x) ==
    IF /\ x = xrow
       /\ last.ok
       /\ last.op \in {"vy_stmt_encode_primary", "vy_stmt_encode_secondary"}
    THEN <<[op |-> last.op, value |-> last.arg.value,
            key_def |-> last.arg.key_def]>>
    ELSE <<>>

Decode(x, format, ctx, rfail, mallocOk) ==
    Commit("vy_stmt_decode", ctx,
           [xrow |-> x, format_id |-> format.id, encoded |-> Encoded(x)],
           vy_stmt_decode(x, format, ctx, rfail, Malloc(mallocOk), fmtRefs,
                          regionUsed))

(***************************************************************************)
(* Initial states.  The engine starts with no statement; a behaviour may   *)
(* also start from one statement that the constructors built on the main   *)
(* cord and that was stamped with flags and an LSN.                        *)
(***************************************************************************)
BaseRefs == [f \in FormatIds |-> 1]

NoCall ==
    [op |-> "none", ctx |-> "main", ok |-> TRUE, err |-> "none", arg |-> <<>>,
     res |-> 0, mallocs |-> <<>>,
     pre |-> [heap |-> <<>>, fmtRefs |-> BaseRefs, regionUsed |-> 0,
              lsregion |-> <<>>, xrow |-> ZeroXrow]]

NoDrift == [f \in FormatIds |-> 0]

InitEmpty ==
    /\ acct = [cord |-> <<>>, drift |-> NoDrift]
    /\ heap = <<>>
    /\ fmtRefs = BaseRefs
    /\ regionUsed \in {0, RegionBase}
    /\ lsregion = <<>>
    /\ xrow = ZeroXrow
    /\ last = NoCall
    /\ nops = 0

\* the sources the initial statement is built from
StmtSrcs == {Src(Format1, T1), Src(Format1, T2), Src(Format2, U1)}

BuiltStmts ==
    {vy_stmt_new_with_ops(src.format, src.data, <<>>, type, "main", TRUE,
                          TRUE, BaseRefs, 0).stmt :
        src \in StmtSrcs,
        type \in {IPROTO_INSERT, IPROTO_REPLACE, IPROTO_DELETE}}
    \cup {vy_stmt_new_with_ops(src.format, src.data, ops, IPROTO_UPSERT,
                               "main", TRUE, TRUE, BaseRefs, 0).stmt :
            src \in StmtSrcs, ops \in OpsSamples}
    \cup {vy_stmt_new_surrogate_delete_raw(src.format, src.data, "main", 0,
                                           TRUE, BaseRefs, 0).stmt :
            src \in StmtSrcs}
    \cup {vy_stmt_new_with_ops(KeyFormat,
                               tuple_extract_key_raw(src.data, PrimaryDef),
                               <<>>, IPROTO_DELETE, "main", TRUE, TRUE,
                               BaseRefs, 0).stmt :
            src \in {Src(Format1, T1)}}
    \cup {vy_key_new(KeyFormat, <<1, 4>>, 2, "main", TRUE, BaseRefs, 0).stmt}

FlagSets == 0..VY_STMT_FLAGS_ALL

SampleStmts ==
    {vy_stmt_set_lsn(vy_stmt_set_flags(s, f), l) :
        s \in BuiltStmts, f \in FlagSets, l \in {0, MaxLsn}}

InitStmt ==
    /\ \E s \in SampleStmts :
          /\ heap = (1 :> s)
          /\ fmtRefs = [BaseRefs EXCEPT ![s.format_id] = 2]
    /\ regionUsed = RegionBase
    /\ lsregion = <<>>
    /\ xrow = ZeroXrow
    /\ last = NoCall
    /\ nops = 0
    /\ acct = [cord |-> (1 :> "main"), drift |-> NoDrift]

(***************************************************************************)
(* The allocator alone: vy_stmt_alloc, tuple_ref, tuple_unref.             *)
(***************************************************************************)
NextAlloc ==
    \/ \E f \in Formats, b \in AllocSizes, c \in Contexts, m \in BOOLEAN :
          nops < MaxAllocOps /\ Alloc(f, b, c, m)
    \/ \E i \in DOMAIN heap : nops < MaxAllocOps /\ TupleRef(i)
    \/ \E i \in DOMAIN heap, c \in Contexts :
          nops < MaxAllocOps /\ TupleUnref(i, c)

SpecAlloc == InitEmpty /\ [][NextAlloc]_vars

(***************************************************************************)
(* The constructors.                                                       *)
(***************************************************************************)
KeySamples == {[key |-> <<1, 4>>, part_count |-> 2],
               [key |-> <<7>>, part_count |-> 1],
               [key |-> <<>>, part_count |-> 0]}

AllKeyDefs == {PrimaryDef, CmpDef1, CmpDef2}

DoNewWithOps ==
    \E src \in SrcSamples, ops \in OpsSamples \cup {<<>>}, t \in Types,
       c \in Contexts, r \in BOOLEAN, m \in BOOLEAN :
       NewWithOps(src, ops, t, c, r, m)

DoKeyNew ==
    \E k \in KeySamples, c \in Contexts, m \in BOOLEAN :
       KeyNew(k.key, k.part_count, c, m)

DoSurrogateDelete ==
    \E src \in SrcSamples, c \in Contexts, rf \in 0..2, m \in BOOLEAN :
       SurrogateDelete(src, c, rf, m)

DoExtractKey ==
    \E r \in StmtRefs, kd \in AllKeyDefs, c \in Contexts, rf \in 0..1,
       m \in BOOLEAN :
       ExtractKey(r, kd, c, rf, m)

DoExtractKeyRaw ==
    \E src \in SrcSamples, kd \in AllKeyDefs, c \in Contexts, rf \in 0..1,
       m \in BOOLEAN :
       ExtractKeyRaw(src, kd, c, rf, m)

NextBuild ==
    \/ nops < MaxOps /\ DoNewWithOps
    \/ nops < MaxOps /\ DoKeyNew
    \/ nops < MaxOps /\ DoSurrogateDelete
    \/ nops < MaxOps /\ DoExtractKey
    \/ nops < MaxOps /\ DoExtractKeyRaw

SpecBuild == InitEmpty /\ [][NextBuild]_vars

(***************************************************************************)
(* Duplication and demotion of a statement.                                *)
(***************************************************************************)
DoDup == \E r \in StmtRefs, c \in Contexts, m \in BOOLEAN : Dup(r, c, m)

DoDupLsregion ==
    \E r \in StmtRefs, c \in Contexts, ok \in BOOLEAN : DupLsregion(r, c, 1, ok)

DoReplaceFromUpsert ==
    \E r \in StmtRefs, c \in Contexts, m \in BOOLEAN : ReplaceFromUpsert(r, c, m)

DoTupleRef == \E i \in DOMAIN heap : TupleRef(i)

DoTupleUnref == \E i \in DOMAIN heap, c \in Contexts : TupleUnref(i, c)

NextStmt ==
    \/ nops < MaxOps /\ DoDup
    \/ nops < MaxOps /\ DoDupLsregion
    \/ nops < MaxOps /\ DoReplaceFromUpsert
    \/ nops < MaxOps /\ DoTupleRef
    \/ nops < MaxOps /\ DoTupleUnref

SpecStmt == InitStmt /\ [][NextStmt]_vars

(***************************************************************************)
(* The codec.  A row to decode is the caller's row or one read from a run  *)
(* file.                                                                   *)
(***************************************************************************)
Xrow(type, lsn, body) ==
    [type |-> type, lsn |-> lsn, bodycnt |-> 1,
     body |-> [body EXCEPT !.type = type]]

XrowSamples ==
    { \* DELETE of the key [1]
      Xrow(IPROTO_DELETE, 1, [Request(0, 0) EXCEPT !.key = <<145, 1>>]),
      \* REPLACE with the meta data {2: 5, 1: 3}: an unknown key first
      Xrow(IPROTO_REPLACE, 1,
           [Request(0, 0) EXCEPT !.tuple = T1,
                                 !.tuple_meta = <<130, 2, 5, 1, 3>>]),
      \* UPSERT with the meta data {2: [7]}: no flags
      Xrow(IPROTO_UPSERT, 0,
           [Request(0, 0) EXCEPT !.tuple = T3,
                                 !.ops = <<145, 147, 161, 43, 1, 1>>,
                                 !.tuple_meta = <<129, 2, 145, 7>>]),
      \* INSERT with the meta data {1: 259}: a flags value wider than 8 bits
      Xrow(IPROTO_INSERT, MaxLsn,
           [Request(0, 0) EXCEPT !.tuple = T3,
                                 !.tuple_meta = <<129, 1, MP_UINT16, 1, 3>>]),
      \* UPDATE: not a statement of a run file
      Xrow(IPROTO_UPDATE, 1,
           [Request(0, 0) EXCEPT !.key = <<145, 1>>, !.tuple = <<144>>]),
      \* DELETE without a key
      Xrow(IPROTO_DELETE, 1, Request(0, 0)) }

DoEncodePrimary ==
    \E r \in StmtRefs, kd \in AllKeyDefs, rf \in 0..3 :
       EncodePrimary(r, kd, 0, rf)

DoEncodeSecondary ==
    \E r \in StmtRefs, rf \in 0..3 : EncodeSecondary(r, rf)

DoDecode ==
    \E x \in {xrow} \cup XrowSamples, f \in TupleFormats, c \in Contexts,
       rf \in 0..1, m \in BOOLEAN :
       Decode(x, f, c, rf, m)

NextCodec ==
    \/ nops < MaxOps /\ DoEncodePrimary
    \/ nops < MaxOps /\ DoEncodeSecondary
    \/ nops < MaxOps /\ DoDecode

SpecCodec == InitStmt /\ [][NextCodec]_vars

(***************************************************************************)
(* Every call, from the start of the engine or from a state with one       *)
(* statement and a row that an earlier encoding left in the caller's hands.*)
(***************************************************************************)
StaleXrow ==
    Xrow(IPROTO_REPLACE, MaxLsn, [Request(0, 0) EXCEPT !.tuple = T3])

Init ==
    \/ InitEmpty
    \/ /\ \E s \in SampleStmts :
             /\ s.flags \in {0, VY_STMT_DEFERRED_DELETE + VY_STMT_UPDATE}
             /\ heap = (1 :> s)
             /\ fmtRefs = [BaseRefs EXCEPT ![s.format_id] = 2]
       /\ regionUsed = RegionBase
       /\ lsregion = <<>>
       /\ xrow \in {ZeroXrow, StaleXrow}
       /\ last = NoCall
       /\ nops = 0
       /\ acct = [cord |-> (1 :> "main"), drift |-> NoDrift]

DoAlloc ==
    \E f \in Formats, b \in AllocSizes, c \in Contexts, m \in BOOLEAN :
       Alloc(f, b, c, m)

Next ==
    \/ nops < MaxCalls /\ DoAlloc
    \/ nops < MaxCalls /\ DoTupleRef
    \/ nops < MaxCalls /\ DoTupleUnref
    \/ nops < MaxCalls /\ DoDup
    \/ nops < MaxCalls /\ DoDupLsregion
    \/ nops < MaxCalls /\ DoNewWithOps
    \/ nops < MaxCalls /\ DoKeyNew
    \/ nops < MaxCalls /\ DoReplaceFromUpsert
    \/ nops < MaxCalls /\ DoSurrogateDelete
    \/ nops < MaxCalls /\ DoExtractKey
    \/ nops < MaxCalls /\ DoExtractKeyRaw
    \/ nops < MaxCalls /\ DoEncodePrimary
    \/ nops < MaxCalls /\ DoEncodeSecondary
    \/ nops < MaxCalls /\ DoDecode

Spec == Init /\ [][Next]_vars

(***************************************************************************)
(* Properties of the allocator.                                            *)
(***************************************************************************)
\* header + field map + payload exceeds the maximum, as integers (the sum
\* may need 33 bits)
ExceedsMax(format, bsize) ==
    LET h == U32(HeaderSize + format.field_map_size) IN
    \/ U32Carry(h, bsize) = 1
    \/ U32Gt(U32Add(h, bsize), U32(MaxTupleSize))

\* C1: an allocation whose header + field map + payload is above the
\* maximum fails with ER_VINYL_MAX_TUPLE_SIZE, asks malloc for nothing and
\* leaves the format's reference counter alone; no statement of the heap is
\* larger than the maximum.
C1_SizeEnforced ==
    /\ (last.op = "vy_stmt_alloc"
        /\ ExceedsMax(tuple_format_by_id(last.arg.format_id), last.arg.bsize))
       => /\ ~last.ok
          /\ last.err = "ER_VINYL_MAX_TUPLE_SIZE"
          /\ last.mallocs = <<>>
          /\ fmtRefs = last.pre.fmtRefs
    /\ \A i \in DOMAIN heap :
          ~ExceedsMax(tuple_format_by_id(heap[i].format_id), heap[i].bsize)

\* C7: a successful vy_stmt_alloc adds one to the format's reference
\* counter exactly on the main cord, the deletion of a statement whose
\* reference counter reached 0 takes one off exactly on the main cord, and
\* on another cord neither writes any format's counter.
C7_FormatRefOnMainOnly ==
    /\ (last.op = "vy_stmt_alloc" /\ last.ok)
       => fmtRefs = IF last.ctx = "main"
                    THEN [last.pre.fmtRefs EXCEPT ![last.arg.format_id] =
                              last.pre.fmtRefs[last.arg.format_id] + 1]
                    ELSE last.pre.fmtRefs
    /\ (last.op = "tuple_unref" /\ last.arg.freed)
       => LET id == last.pre.heap[last.arg.addr].format_id IN
          fmtRefs = IF last.ctx = "main"
                    THEN [last.pre.fmtRefs EXCEPT ![id] =
                              last.pre.fmtRefs[id] - 1]
                    ELSE last.pre.fmtRefs

\* a statement allocated on a worker cord, without a reference to its
\* format, is deleted on the main cord
C7_Witness ==
    /\ last.op = "tuple_unref"
    /\ last.arg.freed
    /\ last.ctx = "main"
    /\ fmtRefs[last.pre.heap[last.arg.addr].format_id] = 0

(***************************************************************************)
(* Properties of the codec.                                                *)
(***************************************************************************)
Encoders == {"vy_stmt_encode_primary", "vy_stmt_encode_secondary"}

\* the last call decoded the row that vy_stmt_encode_primary wrote
RoundTrip ==
    /\ last.op = "vy_stmt_decode"
    /\ last.ok
    /\ last.arg.encoded # <<>>
    /\ last.arg.encoded[1].op = "vy_stmt_encode_primary"

\* the statement has the type, LSN, operations and masked flags of R
SameButPayload(D, R) ==
    /\ D.type = R.type
    /\ D.lsn = R.lsn
    /\ D.flags = vy_stmt_persistent_flags(R, TRUE)
    /\ R.type = IPROTO_UPSERT =>
          /\ vy_stmt_upsert_ops(D) = vy_stmt_upsert_ops(R)
          /\ vy_upsert_data_range(D) = vy_upsert_data_range(R)

\* C2 as the specification states it: the statement decoded from the
\* primary-index encoding of R has the type, LSN, payload bytes, UPSERT
\* operations and masked flags of R, for every type of R.
C2_RoundTripFullPayload ==
    RoundTrip =>
       LET R == last.arg.encoded[1].value
           D == heap[last.res]
       IN  SameButPayload(D, R) /\ D.data = R.data

\* C2: the statement decoded from the primary-index encoding of R has the
\* type, LSN, UPSERT operations and masked flags of R; its payload is R's
\* payload, except that for a DELETE that is not a bare key it is the key
\* extracted from R with the encoder's key definition.
C2_RoundTrip ==
    RoundTrip =>
       LET R == last.arg.encoded[1].value
           D == heap[last.res]
       IN  /\ SameButPayload(D, R)
           /\ D.data = IF R.type = IPROTO_DELETE /\ ~vy_stmt_is_key(R)
                       THEN tuple_extract_key_raw(R.data,
                                                  last.arg.encoded[1].key_def)
                       ELSE R.data

\* a DELETE with a full tuple came back as its key
C2_Witness ==
    /\ RoundTrip
    /\ last.arg.encoded[1].value.type = IPROTO_DELETE
    /\ ~vy_stmt_is_key(last.arg.encoded[1].value)
    /\ heap[last.res].data # last.arg.encoded[1].value.data
    /\ heap[last.res].lsn = MaxLsn

\* C3: the flags an encoder writes are the statement's flags without
\* UPDATE and, for a secondary index, without DEFERRED_DELETE; when none is
\* left the row has no meta data, otherwise the meta data is the map
\* {VY_STMT_FLAGS: flags}.
C3_PersistentFlags ==
    (last.op \in Encoders /\ last.ok) =>
       LET R == last.arg.value
           f == R.flags
                - VY_STMT_UPDATE * ((R.flags \div VY_STMT_UPDATE) % 2)
                - (IF last.op = "vy_stmt_encode_secondary"
                   THEN VY_STMT_DEFERRED_DELETE * (R.flags % 2)
                   ELSE 0)
       IN  xrow.body.tuple_meta =
              IF f = 0 THEN <<>> ELSE <<128 + 1, VY_STMT_FLAGS, f>>

\* a statement with UPDATE and DEFERRED_DELETE encoded for a secondary
\* index: no meta data
C3_Witness ==
    /\ last.op = "vy_stmt_encode_secondary"
    /\ last.ok
    /\ last.arg.value.flags = VY_STMT_UPDATE + VY_STMT_DEFERRED_DELETE
    /\ xrow.body.tuple_meta = <<>>

(***************************************************************************)
(* Properties of duplication and demotion.                                 *)
(***************************************************************************)
\* the statement a reference named before the last call
PreStmtAt(r) ==
    IF r[1] = "heap" THEN last.pre.heap[r[2]] ELSE last.pre.lsregion[r[2]].stmt

\* C4: vy_stmt_dup gives a new statement with the size, type, LSN, flags,
\* field map and data of R and a reference counter of 1 whatever R's is; R
\* is left as it was, and a later change of one statement's reference
\* counter changes no other statement.
C4_DupFidelity ==
    /\ (last.op = "vy_stmt_dup" /\ last.ok) =>
          LET R == PreStmtAt(last.arg.stmt)
              D == heap[last.res]
          IN  /\ last.res \notin DOMAIN last.pre.heap
              /\ tuple_size(D) = tuple_size(R)
              /\ D.bsize = R.bsize
              /\ D.type = R.type
              /\ D.lsn = R.lsn
              /\ D.flags = R.flags
              /\ D.field_map = R.field_map
              /\ D.data = R.data
              /\ D.refs = 1
              /\ StmtAt(last.arg.stmt) = R
    /\ last.op \in {"tuple_ref", "tuple_unref"} =>
          /\ \A i \in DOMAIN last.pre.heap \ {last.arg.addr} :
                i \in DOMAIN heap /\ heap[i] = last.pre.heap[i]
          /\ lsregion = last.pre.lsregion

\* the duplicate of a statement of the lsregion, whose counter is 0
C4_Witness ==
    /\ last.op = "vy_stmt_dup"
    /\ last.ok
    /\ last.arg.stmt[1] = "lsregion"
    /\ PreStmtAt(last.arg.stmt).refs = 0
    /\ heap[last.res].refs = 1

\* C5: vy_stmt_replace_from_upsert of an UPSERT whose data is P bytes of
\* tuple followed by the operations gives a REPLACE of bsize P with those
\* P bytes, the UPSERT's field map and its LSN; the UPSERT is left as it
\* was.
C5_ReplaceFromUpsert ==
    (last.op = "vy_stmt_replace_from_upsert" /\ last.ok) =>
       LET U == PreStmtAt(last.arg.stmt)
           R == heap[last.res]
       IN  /\ R.type = IPROTO_REPLACE
           /\ \E ops \in OpsSamples :
                 /\ Len(ops) < Len(U.data)
                 /\ U.data = R.data \o ops
                 /\ R.bsize = U32(Len(U.data) - Len(ops))
           /\ R.field_map = U.field_map
           /\ R.lsn = U.lsn
           /\ StmtAt(last.arg.stmt) = U

\* an UPSERT with an LSN was turned into a REPLACE
C5_Witness ==
    /\ last.op = "vy_stmt_replace_from_upsert"
    /\ last.ok
    /\ heap[last.res].lsn = MaxLsn
    /\ Len(heap[last.res].data) < Len(PreStmtAt(last.arg.stmt).data)

\* C8: vy_stmt_dup_lsregion asks the lsregion for the size of R, and one
\* byte more for an UPSERT; the copy has a reference counter of 0 and is
\* R's header, field map and data; the copy of an UPSERT starts one byte
\* into the allocation and that byte is 0; the format's reference counter
\* is not written, on any cord.
C8_DupLsregion ==
    (last.op = "vy_stmt_dup_lsregion" /\ last.ok) =>
       LET R == PreStmtAt(last.arg.stmt)
           a == lsregion[last.res]
       IN  /\ a.size = U32Val(tuple_size(R))
                       + (IF R.type = IPROTO_UPSERT THEN 1 ELSE 0)
           /\ a.lead = IF R.type = IPROTO_UPSERT THEN <<0>> ELSE <<>>
           /\ a.size = Len(a.lead) + U32Val(tuple_size(a.stmt))
           /\ a.stmt.refs = 0
           /\ [a.stmt EXCEPT !.refs = R.refs] = R
           /\ fmtRefs = last.pre.fmtRefs
           /\ heap = last.pre.heap

\* an UPSERT copied to the lsregion on a worker cord
C8_Witness ==
    /\ last.op = "vy_stmt_dup_lsregion"
    /\ last.ok
    /\ last.ctx = "worker"
    /\ lsregion[last.res].stmt.type = IPROTO_UPSERT
    /\ lsregion[last.res].lead = <<0>>

(***************************************************************************)
(* Properties of the constructors.                                         *)
(***************************************************************************)
\* C6: the surrogate DELETE of a source with M top-level fields has
\* min(M, index_field_count) top-level fields; the offset slot of an
\* indexed field is not 0 exactly when the source holds the field, and
\* then it is the offset in the output where that field's value starts.
C6_SurrogateFieldMap ==
    (last.op = "vy_stmt_new_surrogate_delete_raw" /\ last.ok) =>
       LET format == tuple_format_by_id(last.arg.format_id)
           src == last.arg.data
           S == heap[last.res]
           M == src[1] - 144
           n == IF M < format.index_field_count
                THEN M ELSE format.index_field_count
       IN  /\ S.type = IPROTO_DELETE
           /\ S.data[1] = 144 + n
           /\ S.bsize = U32(Len(S.data))
           /\ Len(S.field_map) = SlotCount(format)
           /\ \A f \in SlotFields(format) :
                 LET off == S.field_map[SlotIndex(format, f.offset_slot)]
                     ps == PathPos(src, {1}, FieldPath(format, f.id))
                 IN  /\ (off # 0) <=> (ps # {})
                     /\ ps # {} =>
                           /\ off < Len(S.data)
                           /\ \E p \in ps :
                                 /\ S.data[off + 1] = src[p]
                                 /\ \/ IsFixMap(src[p])
                                    \/ IsFixArray(src[p])
                                    \/ Bytes(S.data, off + 1,
                                             mp_next(S.data, off + 1))
                                       = Bytes(src, p, mp_next(src, p))

\* a source with more fields than the indexes cover, one indexed field
\* held and one missing
C6_Witness ==
    /\ last.op = "vy_stmt_new_surrogate_delete_raw"
    /\ last.ok
    /\ last.arg.data[1] - 144 > tuple_format_by_id(last.arg.format_id).index_field_count
    /\ \E i, j \in DOMAIN heap[last.res].field_map :
          heap[last.res].field_map[i] = 0 /\ heap[last.res].field_map[j] # 0

RegionUsers ==
    {"vy_stmt_new_surrogate_delete_raw", "vy_stmt_extract_key",
     "vy_stmt_extract_key_raw", "vy_stmt_new_with_ops", "vy_key_new"}

\* C9: after vy_stmt_new_surrogate_delete_raw, vy_stmt_extract_key,
\* vy_stmt_extract_key_raw, vy_stmt_new_with_ops and vy_key_new, failed or
\* not, the fiber region has the used size it had before the call.
C9_RegionRestored ==
    last.op \in RegionUsers => regionUsed = last.pre.regionUsed

\* a surrogate DELETE that failed in malloc, after both region allocations,
\* with the region in use before the call
C9_Witness ==
    /\ last.op = "vy_stmt_new_surrogate_delete_raw"
    /\ ~last.ok
    /\ last.mallocs # <<>>
    /\ last.pre.regionUsed = RegionBase
    /\ regionUsed = RegionBase

(***************************************************************************)
(* Properties of every call.                                               *)
(***************************************************************************)
\* C10 as the specification states it: a call that fails leaves the heap,
\* the formats' reference counters and the caller's row as they were.
C10_FailureLeavesAll ==
    ~last.ok =>
       /\ heap = last.pre.heap
       /\ lsregion = last.pre.lsregion
       /\ fmtRefs = last.pre.fmtRefs
       /\ xrow = last.pre.xrow

\* C10: a call that fails leaves the heap, the lsregion and the formats'
\* reference counters as they were; the caller's row is as it was unless
\* the call is an encoder, and a failed encoder leaves it zeroed but for
\* the statement's type and LSN, with a body count of 0 or -1.
C10_FailureLeavesState ==
    ~last.ok =>
       /\ heap = last.pre.heap
       /\ lsregion = last.pre.lsregion
       /\ fmtRefs = last.pre.fmtRefs
       /\ IF last.op \in Encoders
          THEN \E c \in {0, -1} :
                  xrow = [ZeroXrow EXCEPT !.type = last.arg.value.type,
                                          !.lsn = last.arg.value.lsn,
                                          !.bodycnt = c]
          ELSE xrow = last.pre.xrow

\* an encoder failed and the row the caller held is gone
C10_Witness ==
    /\ last.op = "vy_stmt_encode_primary"
    /\ ~last.ok
    /\ last.pre.xrow = StaleXrow
    /\ xrow # last.pre.xrow
    /\ xrow.body = ZeroXrow.body

(***************************************************************************)
(* Properties of the encoders' ranges.                                     *)
(***************************************************************************)
\* the row has the type and LSN of R; the key of a DELETE is R's data for
\* a key and the extracted key otherwise; the tuple and operations of an
\* UPSERT are R's data split where the operations start
EncodedCommon(R, key_def) ==
    /\ xrow.type = R.type
    /\ xrow.lsn = R.lsn
    /\ R.type = IPROTO_DELETE =>
          xrow.body.key = IF vy_stmt_is_key(R) THEN R.data
                          ELSE tuple_extract_key_raw(R.data, key_def)
    /\ R.type = IPROTO_UPSERT =>
          /\ xrow.body.tuple \o xrow.body.ops = R.data
          /\ xrow.body.ops \in OpsSamples

\* C11 as the specification states it: both encoders write the type and
\* LSN, the key of a DELETE (own data of a key, extracted key otherwise),
\* the full data of an INSERT or REPLACE as the tuple, and the tuple and
\* operations of an UPSERT.
C11_EncodeFullTuple ==
    (last.op \in Encoders /\ last.ok) =>
       /\ EncodedCommon(last.arg.value, last.arg.key_def)
       /\ last.arg.value.type \in {IPROTO_INSERT, IPROTO_REPLACE} =>
             xrow.body.tuple = last.arg.value.data

\* C11: both encoders write the type and LSN and the key of a DELETE (own
\* data of a key, extracted key otherwise); vy_stmt_encode_primary writes
\* the full data of an INSERT or REPLACE as the tuple and the tuple and
\* operations of an UPSERT; vy_stmt_encode_secondary writes as the tuple of
\* an INSERT or REPLACE the key extracted with the comparison definition
\* (the statement's own data when it is a key).
C11_EncodeRanges ==
    (last.op \in Encoders /\ last.ok) =>
       LET R == last.arg.value IN
       /\ EncodedCommon(R, last.arg.key_def)
       /\ R.type \in {IPROTO_INSERT, IPROTO_REPLACE} =>
             xrow.body.tuple =
                IF last.op = "vy_stmt_encode_primary" \/ vy_stmt_is_key(R)
                THEN R.data
                ELSE tuple_extract_key_raw(R.data, last.arg.key_def)

\* a REPLACE with a full tuple encoded for a secondary index: the row
\* holds the extracted key and the statement's LSN
C11_Witness ==
    /\ last.op = "vy_stmt_encode_secondary"
    /\ last.ok
    /\ last.arg.value.type = IPROTO_REPLACE
    /\ xrow.body.tuple # last.arg.value.data
    /\ xrow.lsn = MaxLsn

(***************************************************************************)
(* Properties of the decoder's meta data.                                  *)
(***************************************************************************)
\* the value stored under VY_STMT_FLAGS in the n entries of the map from
\* position p, v when there is none
RECURSIVE MetaFlagsEntry(_, _, _, _)
MetaFlagsEntry(meta, p, n, v) ==
    IF n = 0 THEN v
    ELSE LET vp == mp_next(meta, p) IN
         MetaFlagsEntry(meta, mp_next(meta, vp), n - 1,
                        IF mp_decode_uint(meta, p) = VY_STMT_FLAGS
                        THEN mp_decode_uint(meta, vp) ELSE v)

\* C12: the statement decoded from a row has the row's LSN, and its flags
\* are the value the row's meta data stores under VY_STMT_FLAGS, 0 when
\* there is no meta data or no such entry; entries under other keys do not
\* count.
C12_DecodeMeta ==
    (last.op = "vy_stmt_decode" /\ last.ok) =>
       LET x == last.arg.xrow
           meta == x.body.tuple_meta
           D == heap[last.res]
       IN  /\ D.lsn = x.lsn
           /\ D.flags = IF meta = <<>> THEN 0
                        ELSE MetaFlagsEntry(meta, 2, meta[1] - 128, 0)

(***************************************************************************)
(* Properties of the header of a demoted UPSERT.                           *)
(***************************************************************************)
\* the header of the REPLACE but for its flags: one reference, the type
\* REPLACE, the size of the data, and the format, LSN and data offset of
\* the UPSERT
ReplaceHeader(R, U) ==
    /\ R.refs = 1
    /\ R.type = IPROTO_REPLACE
    /\ R.bsize = U32(Len(R.data))
    /\ Len(R.data) < Len(U.data)
    /\ R.format_id = U.format_id
    /\ R.lsn = U.lsn
    /\ R.data_offset = U.data_offset

\* C13 as the specification states it: the REPLACE made from an UPSERT has
\* the UPSERT's format, LSN, data offset and flags.
C13_HeaderCopied ==
    (last.op = "vy_stmt_replace_from_upsert" /\ last.ok) =>
       /\ ReplaceHeader(heap[last.res], PreStmtAt(last.arg.stmt))
       /\ heap[last.res].flags = PreStmtAt(last.arg.stmt).flags

\* C13: the REPLACE made from an UPSERT has the UPSERT's format, LSN and
\* data offset, one reference, the type REPLACE and the size of the tuple;
\* its flags are 0 whatever the flags of the UPSERT.
C13_HeaderFields ==
    (last.op = "vy_stmt_replace_from_upsert" /\ last.ok) =>
       /\ ReplaceHeader(heap[last.res], PreStmtAt(last.arg.stmt))
       /\ heap[last.res].flags = 0

\* an UPSERT with every flag set was turned into a REPLACE without flags
C13_Witness ==
    /\ last.op = "vy_stmt_replace_from_upsert"
    /\ last.ok
    /\ PreStmtAt(last.arg.stmt).flags = VY_STMT_FLAGS_ALL
    /\ heap[last.res].flags = 0

(***************************************************************************)
(* Properties of the data of a surrogate DELETE.                           *)
(***************************************************************************)
\* the position after k complete MessagePack values from position p, 0
\* when the data ends before them
RECURSIVE MpEnd(_, _, _)
MpEnd(d, p, k) ==
    IF k = 0 THEN p
    ELSE IF p > Len(d) THEN 0
    ELSE LET b == d[p] IN
         IF IsFixArray(b) THEN MpEnd(d, p + 1, k - 1 + (b - 144))
         ELSE IF IsFixMap(b) THEN MpEnd(d, p + 1, k - 1 + 2 * (b - 128))
         ELSE IF IsFixStr(b)
         THEN IF p + (b - 160) > Len(d) THEN 0
              ELSE MpEnd(d, p + 1 + (b - 160), k - 1)
         ELSE IF b = MP_UINT8
         THEN IF p + 1 > Len(d) THEN 0 ELSE MpEnd(d, p + 2, k - 1)
         ELSE IF b = MP_UINT16
         THEN IF p + 2 > Len(d) THEN 0 ELSE MpEnd(d, p + 3, k - 1)
         ELSE MpEnd(d, p + 1, k - 1)

\* the data is one array whose headers count what follows them
WellFormedArray(d) ==
    /\ d # <<>>
    /\ IsFixArray(d[1])
    /\ MpEnd(d, 1, 1) = Len(d) + 1

\* C14: the data of a surrogate DELETE is not longer than the source and
\* is one well-formed array: every array and map header in it is followed
\* by as many elements (pairs) as it declares.
C14_SurrogateWellFormed ==
    (last.op = "vy_stmt_new_surrogate_delete_raw" /\ last.ok) =>
       /\ Len(heap[last.res].data) <= Len(last.arg.data)
       /\ WellFormedArray(heap[last.res].data)

(***************************************************************************)
(* Properties of the formats' reference counters over a behaviour.         *)
(***************************************************************************)
\* the live statements of a format that were allocated on the main cord
LiveMain(f) ==
    {i \in DOMAIN heap : heap[i].format_id = f /\ cord_is_main(acct.cord[i])}

\* C15 as the specification states it: a format's counter is its base
\* value plus the number of live statements whose allocation took a
\* reference, is never below the base, and is the base once every
\* statement is deleted, whatever cords allocated and deleted them.
C15_RefBalance ==
    \A f \in FormatIds :
       /\ fmtRefs[f] = BaseRefs[f] + Cardinality(LiveMain(f))
       /\ fmtRefs[f] >= BaseRefs[f]
       /\ heap = <<>> => fmtRefs[f] = BaseRefs[f]

\* C15: a format's counter is its base value, plus the number of live
\* statements allocated on the main cord, plus one for every statement
\* allocated on the main cord and deleted on another, less one for every
\* statement allocated on another cord and deleted on the main one; with
\* no such cross-cord deletion it is never below the base and is the base
\* once every statement is deleted.
C15_RefAccount ==
    \A f \in FormatIds :
       /\ fmtRefs[f] = BaseRefs[f] + Cardinality(LiveMain(f)) + acct.drift[f]
       /\ acct.drift[f] = 0 =>
             /\ fmtRefs[f] >= BaseRefs[f]
             /\ heap = <<>> => fmtRefs[f] = BaseRefs[f]

\* a statement allocated on a worker cord was deleted on the main cord and
\* the counter is below its base; no statement is left
C15_Witness ==
    /\ heap = <<>>
    /\ last.op = "tuple_unref"
    /\ last.arg.freed
    /\ last.ctx = "main"
    /\ \E f \in FormatIds :
          acct.drift[f] = -1 /\ fmtRefs[f] = BaseRefs[f] - 1

====
